---- MODULE Spec2Model ----
(***************************************************************************)
(* BroadcastGroup (src/src/broadcast.ts): the registry of platform clients *)
(* and the fan-out operations broadcast, broadcastEmbed, testConnections.  *)
(*                                                                         *)
(* One group object is modelled.  The registry operations addClient and    *)
(* removeClient are synchronous and atomic.  An aggregate call is an async *)
(* function: its synchronous prefix (the map over this.clients, which      *)
(* invokes every client's method) is one step, every later settlement of a *)
(* client's promise together with the mapper's continuation is one step,   *)
(* and the continuation after Promise.allSettled is one step.  Registry    *)
(* operations may run between those steps.                                 *)
(***************************************************************************)
EXTENDS Integers, Sequences, FiniteSets, TLC

(* ------------------------------ bounds --------------------------------- *)

\* largest registry the model builds
MaxClients == 2
\* number of addClient / removeClient calls in one behaviour with an
\* aggregate call
MaxMutations == 2
\* number of addClient / removeClient calls in one behaviour of the registry
\* alone
MaxRegistryCalls == 4

(* --------------------------- JavaScript values ------------------------- *)

\* the value undefined
Undefined == "<undefined>"
\* a property that the object literal does not carry
Absent == "<absent>"

\* name given to the constructor
GroupName == "alerts"

(* ------------------------------ clients -------------------------------- *)

\* a client argument that is null or undefined
NullClient == "null"
\* an object without a send method
NoSendClient == "NoSendClient"
\* SlackClient: send, sendEmbed and testConnection
SlackClient == "SlackClient"
\* a client exposing send only
PlainClient == "PlainClient"

\* clients of classes whose name holds "Client" before its end, exposing
\* send only
ClientHubClient == "ClientHubClient"
ClientHub == "ClientHub"

ValidClients == {SlackClient, PlainClient}
ClientArgs == ValidClients \cup {NullClient, NoSendClient}
NamedClients == {ClientHubClient, ClientHub}

HasSend(c) == c \in ValidClients \cup NamedClients
HasSendEmbed(c) == c = SlackClient
HasTestConnection(c) == c = SlackClient

\* client.constructor.name, as a sequence of characters
ConstructorName(c) ==
    CASE c = SlackClient -> <<"S", "l", "a", "c", "k", "C", "l", "i", "e", "n", "t">>
      [] c = PlainClient -> <<"P", "l", "a", "i", "n", "C", "l", "i", "e", "n", "t">>
      [] c = ClientHubClient ->
            <<"C", "l", "i", "e", "n", "t", "H", "u", "b", "C", "l", "i", "e", "n", "t">>
      [] c = ClientHub -> <<"C", "l", "i", "e", "n", "t", "H", "u", "b">>
      [] OTHER -> <<"O", "b", "j", "e", "c", "t">>

(* ------------------------------ strings -------------------------------- *)

MatchesAt(s, p, i) ==
    /\ i + Len(p) - 1 <= Len(s)
    /\ \A k \in 1..Len(p) : s[i + k - 1] = p[k]

\* index of the first occurrence of p in s, 0 when there is none
IndexOf(s, p) ==
    IF \E i \in 1..Len(s) : MatchesAt(s, p, i)
    THEN CHOOSE i \in 1..Len(s) :
            /\ MatchesAt(s, p, i)
            /\ \A j \in 1..(i - 1) : ~MatchesAt(s, p, j)
    ELSE 0

\* String.prototype.replace with a string pattern: the first occurrence only
Replace(s, p, r) ==
    LET i == IndexOf(s, p)
    IN  IF i = 0 THEN s
        ELSE SubSeq(s, 1, i - 1) \o r \o SubSeq(s, i + Len(p), Len(s))

LowerChar(ch) ==
    CASE ch = "C" -> "c"
      [] ch = "S" -> "s"
      [] ch = "P" -> "p"
      [] ch = "O" -> "o"
      [] ch = "H" -> "h"
      [] OTHER -> ch

ToLowerCase(s) == [i \in 1..Len(s) |-> LowerChar(s[i])]

RECURSIVE Text(_)
\* the string spelled by a sequence of characters
Text(s) == IF s = <<>> THEN "" ELSE Head(s) \o Text(Tail(s))

\* client.constructor.name.replace("Client", "").toLowerCase()
PlatformOf(c) ==
    Text(ToLowerCase(Replace(ConstructorName(c), <<"C", "l", "i", "e", "n", "t">>, <<>>)))

(* ------------------------------ registry ------------------------------- *)

VARIABLES
    clients,      \* this.clients: sequence of ClientEntry
    last,         \* the latest addClient / removeClient call and its outcome
    nmut,         \* number of addClient / removeClient calls made so far
    phase,        \* "idle", "pending" or "returned": the aggregate call
    callOp,       \* which aggregate operation was called
    tasks,        \* one mapper per entry of this.clients at call time: the
                  \* method it invoked, how that settled (value: what the
                  \* promise fulfilled with, reason: what was thrown or
                  \* rejected with) and how the mapper's own promise settled
    results,      \* the results object of the call
    returned,     \* the promise the aggregate call returned
    invocations   \* client methods invoked by the group, in order

vars == <<clients, last, nmut, phase, callOp, tasks, results, returned,
          invocations>>

registryVars == <<clients, last, nmut>>
callVars == <<phase, callOp, tasks, results, returned, invocations>>

\* alias arguments: omitted, the empty string, a caller-chosen alias
AliasArgs == {Undefined, "", "ops"}

\* alias arguments given to removeClient
RemoveArgs == {"ops", "client_1", "client_2", "nobody"}

\* `client_${this.clients.length}`: numbering from the count after the push
AutoAliasFromZero(cl) == "client_" \o ToString(Len(cl))

\* `client_${this.clients.length + 1}`
AutoAlias(cl) == "client_" \o ToString(Len(cl) + 1)

\* alias || `client_${...}`: undefined and "" are falsy
AliasOr(alias, cl) == IF alias # Undefined /\ alias # "" THEN alias ELSE AutoAlias(cl)

\* !client: the test of send is left out
IsInvalidClientNullOnly(c) == c = NullClient

\* !client || typeof client.send !== "function"
IsInvalidClient(c) == c = NullClient \/ ~HasSend(c)

\* the error thrown for an invalid client
InvalidClientError ==
    [class |-> "Error", message |-> "Invalid client: must implement send()"]

NoError == [class |-> Absent, message |-> Absent]

NewEntry(cl, c, alias) ==
    [client |-> c, alias |-> AliasOr(alias, cl), platform |-> PlatformOf(c)]

\* this.clients.push({...})
Push(cl, c, alias) == Append(cl, NewEntry(cl, c, alias))

\* this.clients.findLastIndex((c) => c.alias === alias)
FindLastIndex(cl, alias) ==
    IF \E i \in 1..Len(cl) : cl[i].alias = alias
    THEN CHOOSE i \in 1..Len(cl) :
            /\ cl[i].alias = alias
            /\ \A j \in (i + 1)..Len(cl) : cl[j].alias # alias
    ELSE 0

\* this.clients.findIndex((c) => c.alias === alias), 1-based, 0 for -1
FindIndex(cl, alias) ==
    IF \E i \in 1..Len(cl) : cl[i].alias = alias
    THEN CHOOSE i \in 1..Len(cl) :
            /\ cl[i].alias = alias
            /\ \A j \in 1..(i - 1) : cl[j].alias # alias
    ELSE 0

\* this.clients.splice(index, 1)
Splice(cl, index) == SubSeq(cl, 1, index - 1) \o SubSeq(cl, index + 1, Len(cl))

\* listClients()
ListClients(cl) ==
    [i \in 1..Len(cl) |-> [alias |-> cl[i].alias, platform |-> cl[i].platform]]

\* size()
Size(cl) == Len(cl)

RECURSIVE Construct(_, _)
\* clients.forEach((c) => this.addClient(c)) on valid clients
Construct(cl, list) ==
    IF list = <<>> THEN cl
    ELSE Construct(Push(cl, Head(list), Undefined), Tail(list))

\* initial client lists given to the constructor
InitialLists == {<<>>, <<SlackClient>>, <<PlainClient, SlackClient>>}

AddClient(c, alias) ==
    /\ nmut' = nmut + 1
    /\ IF IsInvalidClient(c)
       THEN /\ last' = [op |-> "addClient", args |-> <<c, alias>>,
                      threw |-> InvalidClientError, ret |-> Absent]
            /\ clients' = clients
       ELSE /\ Len(clients) < MaxClients
            /\ clients' = Push(clients, c, alias)
            /\ last' = [op |-> "addClient", args |-> <<c, alias>>,
                      threw |-> NoError, ret |-> "this"]
    /\ UNCHANGED callVars

RemoveClient(alias) ==
    /\ nmut' = nmut + 1
    /\ LET index == FindIndex(clients, alias)
       IN  IF index >= 1
           THEN /\ clients' = Splice(clients, index)
                /\ last' = [op |-> "removeClient", args |-> <<alias>>,
                          threw |-> NoError, ret |-> "true"]
           ELSE /\ clients' = clients
                /\ last' = [op |-> "removeClient", args |-> <<alias>>,
                          threw |-> NoError, ret |-> "false"]
    /\ UNCHANGED callVars

(* --------------------------- aggregate calls --------------------------- *)

\* the message and options given to broadcast
Message == "hi"
NoOptions == <<>>

\* the embed given to broadcastEmbed
Embed == [title |-> "Deploy", description |-> "ok", color |-> 65280]

\* values a client's promise rejects with, or its method throws:
\* an Error("timeout"), a value without a message property, null / undefined
FailureValues == {"error", "nomsg", "nullish"}

\* what a client's method does when invoked: it returns a promise, or it
\* throws an Error or null
StartBehaviours == {"promise", "error", "nullish"}

\* what a client's promise fulfils with
FulfilValues(method) == IF method = "testConnection" THEN BOOLEAN ELSE {"ok"}

Outcomes(method) ==
    [kind : {"fulfilled"}, value : FulfilValues(method)]
        \cup [kind : {"rejected"}, value : FailureValues]

\* err.message of a value that is not null or undefined
MessageOf(err) == IF err = "error" THEN "timeout" ELSE Undefined

\* { success: true, platform, result }
SuccessResult(platform, result) ==
    [success |-> TRUE, platform |-> platform, result |-> result,
     error |-> Absent, note |-> Absent]

\* { success: true, platform, result, note: "Embed not supported; ..." }
FallbackResult(platform, result) ==
    [success |-> TRUE, platform |-> platform, result |-> result,
     error |-> Absent, note |-> "Embed not supported; sent as plain text."]

\* { success: false, platform, error: err.message }
FailureResult(platform, err) ==
    [success |-> FALSE, platform |-> platform, result |-> Absent,
     error |-> MessageOf(err), note |-> Absent]

\* { platform, connected }
ConnectionResult(platform, connected) ==
    [platform |-> platform, connected |-> connected, error |-> Absent]

\* { platform, connected: false, error: err.message }
ConnectionFailure(platform, err) ==
    [platform |-> platform, connected |-> FALSE, error |-> MessageOf(err)]

\* what a mapper does once its awaited promise has settled: the entry it
\* writes under its alias, if any, and how the mapper's own promise settles
Wrote(entry) == [write |-> TRUE, entry |-> entry, mapper |-> "fulfilled"]

\* reading err.message of null / undefined throws inside the catch block
CatchThrew == [write |-> FALSE, entry |-> Absent, mapper |-> "rejected"]

\* catch (err) { results[alias] = { success: false, platform, error: err.message } }
CatchBroadcast(t, err) ==
    IF err = "nullish" THEN CatchThrew ELSE Wrote(FailureResult(t.platform, err))

\* catch (err) { results[alias] = { platform, connected: false, error: err.message } }
CatchTest(t, err) ==
    IF err = "nullish" THEN CatchThrew ELSE Wrote(ConnectionFailure(t.platform, err))

\* the mapper of broadcast
BroadcastMapper(t, o) ==
    IF o.kind = "fulfilled"
    THEN Wrote(SuccessResult(t.platform, o.value))
    ELSE CatchBroadcast(t, o.value)

\* a mapper of broadcastEmbed that attaches the note to every success
EmbedMapperAlwaysNote(t, o) ==
    IF o.kind = "fulfilled"
    THEN Wrote(FallbackResult(t.platform, o.value))
    ELSE CatchBroadcast(t, o.value)

\* the mapper of broadcastEmbed
EmbedMapper(t, o) ==
    IF o.kind = "fulfilled"
    THEN IF t.method = "sendEmbed"
         THEN Wrote(SuccessResult(t.platform, o.value))
         ELSE Wrote(FallbackResult(t.platform, o.value))
    ELSE CatchBroadcast(t, o.value)

\* a mapper of testConnections whose fallback send has no .catch(() => false):
\* its rejection reaches the catch block
TestMapperNoCatch(t, o) ==
    IF o.kind = "fulfilled"
    THEN Wrote(ConnectionResult(t.platform,
                                IF t.method = "testConnection" THEN o.value ELSE TRUE))
    ELSE CatchTest(t, o.value)

\* the mapper of testConnections
TestMapper(t, o) ==
    IF t.method = "testConnection"
    THEN IF o.kind = "fulfilled"
         THEN Wrote(ConnectionResult(t.platform, o.value))
         ELSE CatchTest(t, o.value)
    ELSE CASE o.kind = "fulfilled" -> Wrote(ConnectionResult(t.platform, TRUE))
           [] o.kind = "rejected" -> Wrote(ConnectionResult(t.platform, FALSE))
           [] OTHER -> CatchTest(t, o.value)

Mapper(op, t, o) ==
    CASE op = "broadcast" -> BroadcastMapper(t, o)
      [] op = "broadcastEmbed" -> EmbedMapper(t, o)
      [] OTHER -> TestMapper(t, o)

\* the method a mapper invokes on its client
MethodFor(op, c) ==
    CASE op = "broadcast" -> "send"
      [] op = "broadcastEmbed" -> IF HasSendEmbed(c) THEN "sendEmbed" ELSE "send"
      [] OTHER -> IF HasTestConnection(c) THEN "testConnection" ELSE "send"

\* `**${embed.title}\n${embed.description}**`: the bold marks around both
PlainTextBoldAll(embed) == "**" \o embed.title \o "\n" \o embed.description \o "**"

\* `**${embed.title}**\n${embed.description}`
PlainText(embed) == "**" \o embed.title \o "**\n" \o embed.description

\* the arguments of that invocation, embed being the argument of broadcastEmbed
ArgsWith(op, c, embed) ==
    CASE op = "broadcast" -> <<Message, NoOptions>>
      [] op = "broadcastEmbed" ->
            IF HasSendEmbed(c) THEN <<embed>> ELSE <<PlainText(embed)>>
      [] OTHER -> IF HasTestConnection(c) THEN <<>> ELSE <<"Test">>

ArgsFor(op, c) == ArgsWith(op, c, Embed)

\* results = { [alias]: entry }: the object is replaced, not extended
PutReplacing(res, alias, entry) == [a \in {alias} |-> entry]

\* results[alias] = entry
Put(res, alias, entry) ==
    [a \in (DOMAIN res) \cup {alias} |-> IF a = alias THEN entry ELSE res[a]]

\* the synchronous part of one mapper: it invokes the client's method, which
\* returns a promise (the mapper suspends) or throws (the catch block runs)
StartTask(op, e, b) ==
    LET t0 == [client |-> e.client, alias |-> e.alias, platform |-> e.platform,
               method |-> MethodFor(op, e.client),
               op |-> "pending", value |-> Absent, reason |-> Absent,
               mapper |-> "pending"]
    IN  IF b = "promise" THEN t0
        ELSE [t0 EXCEPT !.op = "threw", !.reason = b,
                        !.mapper = Mapper(op, t0, [kind |-> "threw", value |-> b]).mapper]

RECURSIVE SyncWrites(_, _, _, _)
\* the entries written before the map over this.clients has finished
SyncWrites(op, ts, i, res) ==
    IF i > Len(ts) THEN res
    ELSE LET t == ts[i]
             k == Mapper(op, t, [kind |-> "threw", value |-> t.reason])
         IN  SyncWrites(op, ts, i + 1,
                 IF t.op = "threw" /\ k.write THEN Put(res, t.alias, k.entry) ELSE res)

\* Promise.all(mappers): rejects as soon as one mapper has rejected
PromiseAll(ts) ==
    [ready |-> \/ \E i \in 1..Len(ts) : ts[i].mapper = "rejected"
               \/ \A i \in 1..Len(ts) : ts[i].mapper = "fulfilled",
     state |-> IF \E i \in 1..Len(ts) : ts[i].mapper = "rejected"
               THEN "rejected" ELSE "fulfilled"]

\* Promise.race(mappers): settles as soon as one mapper has settled
PromiseRace(ts) ==
    [ready |-> ts = <<>> \/ \E i \in 1..Len(ts) : ts[i].mapper # "pending",
     state |-> "fulfilled"]

\* Promise.allSettled(mappers): settles once every mapper has, never rejects
AllSettled(ts) ==
    [ready |-> \A i \in 1..Len(ts) : ts[i].mapper # "pending",
     state |-> "fulfilled"]

\* the value the aggregate call returns
Summary(op, cl, res) ==
    IF op = "testConnections" THEN res
    ELSE [groupName |-> GroupName, totalClients |-> Len(cl), results |-> res]

\* a loop that awaits each client before it invokes the next one: only the
\* first client has been invoked when the caller is suspended
InvokeFirstOnly(op, cl, embed) ==
    [i \in 1..(IF cl = <<>> THEN 0 ELSE 1) |->
        [entry |-> i, client |-> cl[i].client,
         method |-> MethodFor(op, cl[i].client),
         args |-> ArgsWith(op, cl[i].client, embed)]]

\* the invocations this.clients.map(async ...) makes: every mapper runs up to
\* its first await, which follows the invocation of its client's method
InvokeAll(op, cl, embed) ==
    [i \in 1..Len(cl) |->
        [entry |-> i, client |-> cl[i].client,
         method |-> MethodFor(op, cl[i].client),
         args |-> ArgsWith(op, cl[i].client, embed)]]

\* broadcast, broadcastEmbed(embed) or testConnections up to its await.  One
\* call is followed per behaviour: the registry operations do not read the
\* call's state, so every registry a later call could start from is also
\* reached with no call made yet.
CallWith(op, embed, beh) ==
    /\ phase = "idle"
    /\ callOp' = op
    /\ phase' = "pending"
    /\ tasks' = [i \in 1..Len(clients) |-> StartTask(op, clients[i], beh[i])]
    /\ results' = SyncWrites(op, tasks', 1, <<>>)
    /\ invocations' = InvokeAll(op, clients, embed)
    /\ returned' = [state |-> "pending", value |-> Absent]
    /\ UNCHANGED registryVars

Call(op, beh) == CallWith(op, Embed, beh)

Broadcast == \E beh \in [1..Len(clients) -> StartBehaviours] : Call("broadcast", beh)

BroadcastEmbed == \E beh \in [1..Len(clients) -> StartBehaviours] : Call("broadcastEmbed", beh)

TestConnections == \E beh \in [1..Len(clients) -> StartBehaviours] : Call("testConnections", beh)

\* the titles and descriptions given to the severity shortcuts
Titles == {"Deploy", "Rollback"}
Descriptions == {"ok"}

\* The emoji of the title prefixes are written by their code points: U+2705,
\* U+274C, U+26A0 U+FE0F and U+2139 U+FE0F, each followed by a space.
SuccessPrefix == "<U+2705> "
ErrorPrefix == "<U+274C> "
WarningPrefix == "<U+26A0 U+FE0F> "
InfoPrefix == "<U+2139 U+FE0F> "

\* a success embed whose title is left without its prefix
SuccessEmbedNoPrefix(title, description) ==
    [title |-> title, description |-> description, color |-> 65280]

\* { title: `<U+2705> ${title}`, description, color: 0x00ff00 }
SuccessEmbed(title, description) ==
    [title |-> SuccessPrefix \o title, description |-> description, color |-> 65280]

\* { title: `<U+274C> ${title}`, description, color: 0xff0000 }
ErrorEmbed(title, description) ==
    [title |-> ErrorPrefix \o title, description |-> description, color |-> 16711680]

\* { title: `<U+26A0 U+FE0F> ${title}`, description, color: 0xffff00 }
WarningEmbed(title, description) ==
    [title |-> WarningPrefix \o title, description |-> description, color |-> 16776960]

\* { title: `<U+2139 U+FE0F> ${title}`, description, color: 0x3498db }
InfoEmbed(title, description) ==
    [title |-> InfoPrefix \o title, description |-> description, color |-> 3447003]

\* broadcastSuccess(title, description): return this.broadcastEmbed({...})
BroadcastSuccess(title, description, beh) ==
    CallWith("broadcastEmbed", SuccessEmbed(title, description), beh)

\* broadcastError(title, description)
BroadcastError(title, description, beh) ==
    CallWith("broadcastEmbed", ErrorEmbed(title, description), beh)

\* broadcastWarning(title, description)
BroadcastWarning(title, description, beh) ==
    CallWith("broadcastEmbed", WarningEmbed(title, description), beh)

\* broadcastInfo(title, description)
BroadcastInfo(title, description, beh) ==
    CallWith("broadcastEmbed", InfoEmbed(title, description), beh)

\* a mapper that, when sendEmbed has rejected, goes on to send the plain text
SettleWithFallback(i, o) ==
    /\ phase \in {"pending", "returned"}
    /\ tasks[i].op = "pending"
    /\ LET k == Mapper(callOp, tasks[i], o)
       IN  /\ tasks' = [tasks EXCEPT
                        ![i].op = o.kind,
                        ![i].value = IF o.kind = "fulfilled" THEN o.value ELSE Absent,
                        ![i].reason = IF o.kind = "fulfilled" THEN Absent ELSE o.value,
                        ![i].mapper = k.mapper]
           /\ results' = IF k.write THEN Put(results, tasks[i].alias, k.entry) ELSE results
    /\ invocations' =
         IF o.kind = "rejected" /\ tasks[i].method = "sendEmbed"
         THEN Append(invocations,
                     [entry |-> i, client |-> tasks[i].client, method |-> "send",
                      args |-> <<PlainText(Embed)>>])
         ELSE invocations
    /\ UNCHANGED <<phase, callOp, returned>>
    /\ UNCHANGED registryVars

\* the promise of task i settles and its mapper runs to its end
Settle(i, o) ==
    /\ phase \in {"pending", "returned"}
    /\ tasks[i].op = "pending"
    /\ LET k == Mapper(callOp, tasks[i], o)
       IN  /\ tasks' = [tasks EXCEPT
                        ![i].op = o.kind,
                        ![i].value = IF o.kind = "fulfilled" THEN o.value ELSE Absent,
                        ![i].reason = IF o.kind = "fulfilled" THEN Absent ELSE o.value,
                        ![i].mapper = k.mapper]
           /\ results' = IF k.write THEN Put(results, tasks[i].alias, k.entry) ELSE results
    /\ UNCHANGED <<phase, callOp, returned, invocations>>
    /\ UNCHANGED registryVars

\* a group with a timeout of its own: the call returns what it has, whether
\* or not every operation has settled
ReturnOnTimeout ==
    /\ phase = "pending"
    /\ phase' = "returned"
    /\ returned' = [state |-> "fulfilled", value |-> Summary(callOp, clients, results)]
    /\ UNCHANGED <<callOp, tasks, results, invocations>>
    /\ UNCHANGED registryVars

\* the continuation after await Promise.allSettled(...)
Return ==
    /\ phase = "pending"
    /\ AllSettled(tasks).ready
    /\ phase' = "returned"
    /\ returned' = IF AllSettled(tasks).state = "fulfilled"
                   THEN [state |-> "fulfilled", value |-> Summary(callOp, clients, results)]
                   ELSE [state |-> "rejected", value |-> Absent]
    /\ UNCHANGED <<callOp, tasks, results, invocations>>
    /\ UNCHANGED registryVars

Init ==
    /\ \E list \in InitialLists : clients = Construct(<<>>, list)
    /\ last = [op |-> "constructor", args |-> <<>>, threw |-> NoError, ret |-> "this"]
    /\ nmut = 0
    /\ phase = "idle"
    /\ callOp = "none"
    /\ tasks = <<>>
    /\ results = <<>>
    /\ returned = [state |-> "none", value |-> Absent]
    /\ invocations = <<>>

Next ==
    \/ nmut < MaxMutations /\ \E c \in ClientArgs, alias \in AliasArgs : AddClient(c, alias)
    \/ nmut < MaxMutations /\ \E alias \in RemoveArgs : RemoveClient(alias)
    \/ Broadcast
    \/ BroadcastEmbed
    \/ TestConnections
    \/ \E i \in 1..Len(tasks) : \E o \in Outcomes(tasks[i].method) : Settle(i, o)
    \/ Return

Spec == Init /\ [][Next]_vars

\* the registry operations alone, no aggregate call being made
NextRegistry ==
    \/ nmut < MaxRegistryCalls /\ \E c \in ClientArgs, alias \in AliasArgs : AddClient(c, alias)
    \/ nmut < MaxRegistryCalls /\ \E alias \in RemoveArgs : RemoveClient(alias)

SpecRegistry == Init /\ [][NextRegistry]_vars

\* the behaviours the clients of the group can start with
Behaviours == [1..Len(clients) -> StartBehaviours]

\* the aggregate calls, the severity shortcuts among them, on a group whose
\* registry is left alone while the call runs
NextCalls ==
    \/ Broadcast
    \/ BroadcastEmbed
    \/ TestConnections
    \/ \E t \in Titles, d \in Descriptions, beh \in Behaviours : BroadcastSuccess(t, d, beh)
    \/ \E t \in Titles, d \in Descriptions, beh \in Behaviours : BroadcastError(t, d, beh)
    \/ \E t \in Titles, d \in Descriptions, beh \in Behaviours : BroadcastWarning(t, d, beh)
    \/ \E t \in Titles, d \in Descriptions, beh \in Behaviours : BroadcastInfo(t, d, beh)
    \/ \E i \in 1..Len(tasks) : \E o \in Outcomes(tasks[i].method) : Settle(i, o)
    \/ Return

SpecCalls == Init /\ [][NextCalls]_vars

\* The continuation after the await is a job of the event loop: once
\* Promise.allSettled has resolved it is run. Nothing makes a client's own
\* promise settle.
SpecLive == Init /\ [][NextCalls]_vars /\ WF_vars(Return)

\* the registry operations on clients of any class
NextPlatform ==
    \/ /\ nmut < MaxRegistryCalls
       /\ \E c \in ValidClients \cup NamedClients, alias \in AliasArgs : AddClient(c, alias)
    \/ nmut < MaxRegistryCalls /\ \E alias \in RemoveArgs : RemoveClient(alias)

SpecPlatform == Init /\ [][NextPlatform]_vars

(* ------------------------------- claims -------------------------------- *)

\* the tasks of the call whose promise fulfilled, rejected
FulfilledTasks == {i \in 1..Len(tasks) : tasks[i].op = "fulfilled"}
RejectedTasks == {i \in 1..Len(tasks) : tasks[i].op = "rejected"}

\* C1: broadcast to N registered clients of which K reject and N-K fulfil
\* returns a summary with exactly N entries, K of them success=false and N-K
\* success=true, and totalClients = N.
C1_BroadcastCounts ==
    (/\ phase = "returned"
     /\ callOp = "broadcast"
     /\ FulfilledTasks \cup RejectedTasks = 1..Len(tasks))
    => /\ returned.state = "fulfilled"
       /\ LET r == returned.value.results
              N == Len(tasks)
              K == Cardinality(RejectedTasks)
          IN  /\ Cardinality(DOMAIN r) = N
              /\ Cardinality({a \in DOMAIN r : ~r[a].success}) = K
              /\ Cardinality({a \in DOMAIN r : r[a].success}) = N - K
              /\ returned.value.totalClients = N

\* C2: the promise returned by broadcast, broadcastEmbed or testConnections
\* never rejects: whatever the clients do, once the call has returned its
\* promise is fulfilled with the summary (testConnections: the mapping).
C2_NeverRejects ==
    /\ returned.state # "rejected"
    /\ phase = "returned" =>
         /\ returned.state = "fulfilled"
         /\ IF callOp = "testConnections"
            THEN returned.value = results
            ELSE /\ returned.value.groupName = GroupName
                 /\ returned.value.results = results

\* a call has returned although every client failed, one by throwing
\* synchronously and one with a value whose message cannot be read
C2_Witness ==
    /\ phase = "returned"
    /\ Len(tasks) = 2
    /\ \A i \in 1..Len(tasks) : tasks[i].op \in {"rejected", "threw"}
    /\ \E i \in 1..Len(tasks) : tasks[i].op = "threw"
    /\ \E i \in 1..Len(tasks) : tasks[i].mapper = "rejected"

\* C3: for every client whose send / sendEmbed promise rejected, with whatever
\* value, the summary of broadcast / broadcastEmbed holds under the client's
\* alias an entry with success=false, the client's platform and the message
\* of the failure.
C3_RejectionRecorded ==
    (phase = "returned" /\ callOp \in {"broadcast", "broadcastEmbed"})
    => /\ returned.state = "fulfilled"
       /\ \A i \in RejectedTasks :
            LET r == returned.value.results
                t == tasks[i]
            IN  /\ t.alias \in DOMAIN r
                /\ r[t.alias].success = FALSE
                /\ r[t.alias].platform = t.platform
                /\ t.reason # "nullish" => r[t.alias].error = MessageOf(t.reason)

\* C4: an aggregate call returns only after the operation of every client
\* registered at call time has settled.
C4_SettleAllJoin ==
    phase = "returned" =>
        \A i \in 1..Len(tasks) : tasks[i].op # "pending" /\ tasks[i].mapper # "pending"

\* a call over two clients has returned, one fulfilled and one rejected
C4_Witness ==
    /\ phase = "returned"
    /\ Len(tasks) = 2
    /\ FulfilledTasks # {}
    /\ RejectedTasks # {}

\* what the mapper of task t does given the outcome of t's own client alone
OwnOutcome(t) ==
    Mapper(callOp, t, [kind |-> t.op,
                       value |-> IF t.op = "fulfilled" THEN t.value ELSE t.reason])

\* C5: in the summary of broadcast / broadcastEmbed, what is recorded under
\* the alias of a client that shares its alias with no other dispatched
\* client is a function of that client's own outcome alone: it does not
\* depend on the outcomes or the settle order of the other clients.
C5_Isolation ==
    (phase = "returned" /\ callOp \in {"broadcast", "broadcastEmbed"})
    => /\ returned.state = "fulfilled"
       /\ \A i \in 1..Len(tasks) :
            (\A j \in 1..Len(tasks) : j # i => tasks[j].alias # tasks[i].alias)
            => LET r == returned.value.results
                   t == tasks[i]
               IN  IF OwnOutcome(t).write
                   THEN t.alias \in DOMAIN r /\ r[t.alias] = OwnOutcome(t).entry
                   ELSE t.alias \notin DOMAIN r

\* two clients under different aliases, the first fulfilled and recorded as
\* such while the second failed
C5_Witness ==
    /\ phase = "returned"
    /\ callOp \in {"broadcast", "broadcastEmbed"}
    /\ Len(tasks) = 2
    /\ tasks[1].alias # tasks[2].alias
    /\ tasks[1].op = "fulfilled"
    /\ tasks[2].op \in {"rejected", "threw"}
    /\ tasks[1].alias \in DOMAIN results
    /\ results[tasks[1].alias].success

\* C6: addClient with a client that is absent or has no callable send throws
\* synchronously, leaves size() and listClients() as they were and invokes
\* no method of any client.
C6_InvalidClientRejected ==
    [][\A c \in {NullClient, NoSendClient}, alias \in AliasArgs :
         AddClient(c, alias) =>
            /\ last'.op = "addClient"
            /\ last'.threw.class # Absent
            /\ last'.ret = Absent
            /\ Size(clients') = Size(clients)
            /\ ListClients(clients') = ListClients(clients)
            /\ clients' = clients
            /\ invocations' = invocations
            /\ tasks' = tasks]_vars

\* addClient of an object without send has thrown on a group that holds a
\* client, while a call that invoked that client is pending
C6_Witness ==
    /\ last.op = "addClient"
    /\ last.args[1] = NoSendClient
    /\ last.threw.class # Absent
    /\ clients # <<>>
    /\ phase = "pending"
    /\ invocations # <<>>

\* C7: the error addClient throws for a client without a callable send is a
\* ConfigurationError with message "Invalid client: must implement send()".
C7_ConfigurationErrorClass ==
    (last.op = "addClient" /\ last.threw.class # Absent)
    => /\ last.threw.class = "ConfigurationError"
       /\ last.threw.message = "Invalid client: must implement send()"

\* C8: removeClient(alias) returns true exactly when an entry with that alias
\* existed; then it removes the first such entry only, size() drops by one
\* and the other entries keep their order; otherwise it returns false,
\* throws nothing and leaves the registry as it was.
C8_RemoveClient ==
    [][\A alias \in RemoveArgs :
         RemoveClient(alias) =>
            LET existed == \E i \in 1..Len(clients) : clients[i].alias = alias
            IN  /\ last'.op = "removeClient"
                /\ last'.threw = NoError
                /\ (last'.ret = "true") <=> existed
                /\ (last'.ret = "false") <=> ~existed
                /\ existed =>
                     /\ Size(clients') = Size(clients) - 1
                     /\ \E k \in 1..Len(clients) :
                          /\ clients[k].alias = alias
                          /\ \A j \in 1..(k - 1) : clients[j].alias # alias
                          /\ clients' = [i \in 1..(Len(clients) - 1) |->
                                            IF i < k THEN clients[i] ELSE clients[i + 1]]
                /\ ~existed => clients' = clients]_vars

\* removeClient("client_2") has returned true and left behind the later of
\* two entries of that alias
C8_Witness ==
    /\ last.op = "removeClient"
    /\ last.args = <<"client_2">>
    /\ last.ret = "true"
    /\ \E i \in 1..Len(clients) : clients[i].alias = "client_2"

\* addClient has appended an entry for client c under alias a, kept the
\* entries before it and returned the group
C9_Appended(c, a) ==
    /\ Len(clients') = Len(clients) + 1
    /\ SubSeq(clients', 1, Len(clients)) = clients
    /\ clients'[Len(clients')].client = c
    /\ clients'[Len(clients')].alias = a
    /\ last'.op = "addClient"
    /\ last'.threw = NoError
    /\ last'.ret = "this"

\* C9 as stated: addClient registers the entry under the supplied alias for
\* any string supplied, and under client_<n>, n the number of entries before
\* the call plus one, when none is supplied; it appends the entry at the end
\* and returns the group.
C9_AliasAsSupplied ==
    [][\A c \in ValidClients, alias \in AliasArgs :
         AddClient(c, alias) =>
            C9_Appended(c, IF alias # Undefined THEN alias
                           ELSE "client_" \o ToString(Len(clients) + 1))]_vars

\* C9 as amended: addClient registers the entry under the supplied alias when
\* it is a non-empty string, and under client_<n>, n the number of entries
\* before the call plus one, when the alias is omitted or the empty string;
\* it appends the entry at the end and returns the group.
C9_AliasNonEmptyOrAuto ==
    [][\A c \in ValidClients, alias \in AliasArgs :
         AddClient(c, alias) =>
            C9_Appended(c, IF alias \notin {Undefined, ""} THEN alias
                           ELSE "client_" \o ToString(Len(clients) + 1))]_vars

\* an entry registered under the supplied alias "ops" is followed by one
\* that was given the alias "" and is registered under client_2
C9_Witness ==
    /\ last.op = "addClient"
    /\ last.args[2] = ""
    /\ last.ret = "this"
    /\ Len(clients) = 2
    /\ clients[1].alias = "ops"
    /\ clients[2].alias = "client_2"

\* C10: no two registered entries carry the same alias.
C10_AliasUnique ==
    \A i, j \in 1..Len(clients) : i # j => clients[i].alias # clients[j].alias

\* task i shares its alias with no other task of the call
UniqueAlias(i) == \A j \in 1..Len(tasks) : j # i => tasks[j].alias # tasks[i].alias

\* C11: totalClients of the summary of broadcast / broadcastEmbed is the
\* number of clients registered when the call was made, also when addClient
\* or removeClient ran while the sends were pending.
C11_TotalClientsSnapshot ==
    (/\ phase = "returned"
     /\ callOp \in {"broadcast", "broadcastEmbed"}
     /\ returned.state = "fulfilled")
    => returned.value.totalClients = Len(tasks)

\* C12: broadcastEmbed invokes, on a client without sendEmbed, send with the
\* text "**<title>**\n<description>" and nothing else, and records its
\* fulfilment as success=true with the note; on a client with sendEmbed it
\* invokes sendEmbed with the embed and does not invoke send.
C12_EmbedFallback ==
    (phase # "idle" /\ callOp = "broadcastEmbed")
    => /\ Len(invocations) = Len(tasks)
       /\ \A i \in 1..Len(tasks) :
            /\ invocations[i].entry = i
            /\ invocations[i].client = tasks[i].client
            /\ IF HasSendEmbed(tasks[i].client)
               THEN /\ invocations[i].method = "sendEmbed"
                    /\ invocations[i].args =
                         <<[title |-> "Deploy", description |-> "ok", color |-> 65280]>>
               ELSE /\ invocations[i].method = "send"
                    /\ invocations[i].args = <<"**Deploy**\nok">>
            /\ (/\ ~HasSendEmbed(tasks[i].client)
                /\ tasks[i].op = "fulfilled"
                /\ UniqueAlias(i))
               => /\ tasks[i].alias \in DOMAIN results
                  /\ results[tasks[i].alias] =
                        [success |-> TRUE, platform |-> tasks[i].platform,
                         result |-> tasks[i].value, error |-> Absent,
                         note |-> "Embed not supported; sent as plain text."]

\* broadcastEmbed has returned for a client with sendEmbed and a client
\* without, whose fallback send fulfilled
C12_Witness ==
    /\ phase = "returned"
    /\ callOp = "broadcastEmbed"
    /\ \E i, j \in 1..Len(tasks) :
         /\ HasSendEmbed(tasks[i].client)
         /\ ~HasSendEmbed(tasks[j].client)
         /\ tasks[j].op = "fulfilled"
         /\ tasks[j].alias \in DOMAIN results
         /\ results[tasks[j].alias].note # Absent

\* the mapper of task i wrote its entry in this step
WroteInStep(i) ==
    /\ tasks'[i].mapper = "fulfilled"
    /\ (phase = "idle" \/ tasks[i].mapper = "pending")

\* task i is a fulfilled fallback send of broadcastEmbed
FallbackFulfilled(op, t) ==
    /\ op = "broadcastEmbed"
    /\ ~HasSendEmbed(t.client)
    /\ t.method = "send"
    /\ t.op = "fulfilled"

\* the entries of results, whoever wrote them
C13_Entries ==
    callOp \in {"broadcast", "broadcastEmbed"}
    => \A a \in DOMAIN results :
         LET e == results[a]
         IN  /\ e.note # Absent
                => /\ e.success
                   /\ e.note = "Embed not supported; sent as plain text."
                   /\ \E i \in 1..Len(tasks) :
                        tasks[i].alias = a /\ FallbackFulfilled(callOp, tasks[i])
             /\ ~e.success
                => e.error # Absent /\ e.result = Absent /\ e.note = Absent

\* the entry a mapper writes, by its producer
C13_Producer ==
    callOp' \in {"broadcast", "broadcastEmbed"}
    => \A i \in 1..Len(tasks') :
         WroteInStep(i)
         => LET e == results'[tasks'[i].alias]
            IN  /\ e.note # Absent <=> FallbackFulfilled(callOp', tasks'[i])
                /\ e.success <=> tasks'[i].op = "fulfilled"

C14_ShortcutIsBroadcastEmbed ==
    [][\A t \in Titles, d \in Descriptions, beh \in Behaviours :
         /\ BroadcastSuccess(t, d, beh)
            => CallWith("broadcastEmbed",
                        [title |-> "<U+2705> " \o t, description |-> d, color |-> 65280], beh)
         /\ BroadcastError(t, d, beh)
            => CallWith("broadcastEmbed",
                        [title |-> "<U+274C> " \o t, description |-> d, color |-> 16711680], beh)
         /\ BroadcastWarning(t, d, beh)
            => CallWith("broadcastEmbed",
                        [title |-> "<U+26A0 U+FE0F> " \o t, description |-> d, color |-> 16776960], beh)
         /\ BroadcastInfo(t, d, beh)
            => CallWith("broadcastEmbed",
                        [title |-> "<U+2139 U+FE0F> " \o t, description |-> d, color |-> 3447003], beh)
    ]_vars

\* broadcastSuccess has returned: one client was sent the green embed with
\* the prefixed title, the other its plain text
C14_Witness ==
    /\ phase = "returned"
    /\ returned.state = "fulfilled"
    /\ Len(invocations) = 2
    /\ \E i, j \in 1..Len(invocations) :
         /\ invocations[i].method = "sendEmbed"
         /\ invocations[i].args =
              <<[title |-> "<U+2705> Rollback", description |-> "ok", color |-> 65280]>>
         /\ invocations[j].method = "send"
         /\ invocations[j].args = <<"**<U+2705> Rollback**\nok">>

\* C15: in testConnections a client without testConnection is probed with
\* send("Test"); its fulfilment is recorded as connected=true and its
\* rejection, whatever the value, as connected=false, both with the client's
\* platform and without error; the rejection reaches neither the probe's
\* catch block nor the aggregate promise.
C15_FallbackProbe ==
    (phase # "idle" /\ callOp = "testConnections")
    => /\ phase = "returned" => returned.state = "fulfilled"
       /\ \A i \in 1..Len(tasks) :
            ~HasTestConnection(tasks[i].client)
            => /\ tasks[i].method = "send"
               /\ invocations[i].method = "send"
               /\ invocations[i].args = <<"Test">>
               /\ tasks[i].op \in {"fulfilled", "rejected"}
                  => /\ tasks[i].mapper = "fulfilled"
                     /\ UniqueAlias(i)
                        => /\ tasks[i].alias \in DOMAIN results
                           /\ results[tasks[i].alias] =
                                [platform |-> tasks[i].platform,
                                 connected |-> (tasks[i].op = "fulfilled"),
                                 error |-> Absent]

\* testConnections has returned for two clients without testConnection: the
\* send("Test") of one rejected with null, that of the other fulfilled
C15_Witness ==
    /\ phase = "returned"
    /\ callOp = "testConnections"
    /\ \E i, j \in 1..Len(tasks) :
         /\ tasks[i].alias # tasks[j].alias
         /\ tasks[i].method = "send"
         /\ tasks[i].op = "rejected"
         /\ tasks[i].reason = "nullish"
         /\ returned.value[tasks[i].alias].connected = FALSE
         /\ tasks[j].method = "send"
         /\ tasks[j].op = "fulfilled"
         /\ returned.value[tasks[j].alias].connected = TRUE

\* C16: the mapping testConnections returns has an entry for every registered
\* alias; a client with testConnection is probed with testConnection and not
\* with send, its boolean result is recorded as connected, and its failure,
\* whatever the failure value, as {platform, connected: false, error: message}.
C16_ProbeRecorded ==
    (phase = "returned" /\ callOp = "testConnections")
    => /\ returned.state = "fulfilled"
       /\ \A i \in 1..Len(tasks) :
            /\ tasks[i].alias \in DOMAIN returned.value
            /\ (HasTestConnection(tasks[i].client) /\ UniqueAlias(i))
               => LET e == returned.value[tasks[i].alias]
                  IN  /\ invocations[i].method = "testConnection"
                      /\ e.platform = tasks[i].platform
                      /\ tasks[i].op = "fulfilled"
                         => e.connected = tasks[i].value /\ e.error = Absent
                      /\ tasks[i].op \in {"rejected", "threw"}
                         => /\ e.connected = FALSE
                            /\ tasks[i].reason # "nullish"
                               => e.error = MessageOf(tasks[i].reason)

\* two tasks of the call share the alias of task i, and both were invoked
C17_BothDispatched(i) ==
    \A j \in 1..Len(tasks) :
        tasks[j].alias = tasks[i].alias
        => /\ j \in 1..Len(invocations)
           /\ invocations[j].entry = j
           /\ invocations[j].client = tasks[j].client

\* the entry under the alias of task t is the outcome of t
C17_OutcomeOf(op, t, e) ==
    /\ e.platform = t.platform
    /\ IF op = "testConnections"
       THEN e.connected = (t.op = "fulfilled" /\ (t.method = "send" \/ t.value = TRUE))
       ELSE e.success = (t.op = "fulfilled")

\* the summary of a call on clients sharing an alias
C17_Summary ==
    (phase = "returned" /\ \E i \in 1..Len(tasks) : ~UniqueAlias(i))
    => /\ returned.state = "fulfilled"
       /\ callOp # "testConnections" => returned.value.totalClients = Len(tasks)
       /\ \A i \in 1..Len(tasks) :
            ~UniqueAlias(i)
            => LET r == IF callOp = "testConnections" THEN returned.value
                        ELSE returned.value.results
               IN  /\ C17_BothDispatched(i)
                   /\ tasks[i].alias \in DOMAIN r
                   /\ \E j \in 1..Len(tasks) :
                        /\ tasks[j].alias = tasks[i].alias
                        /\ C17_OutcomeOf(callOp, tasks[j], r[tasks[i].alias])

\* the task settling in this step overwrites the entry of the alias it shares
C17_LastSettlerWins ==
    \A i \in 1..Len(tasks) :
        (/\ phase # "idle"
         /\ tasks[i].op = "pending"
         /\ tasks'[i].op # "pending"
         /\ ~UniqueAlias(i))
        => /\ tasks[i].alias \in DOMAIN results'
           /\ C17_OutcomeOf(callOp, tasks'[i], results'[tasks[i].alias])

\* C17: when two registered clients share an alias both are dispatched to,
\* the results of broadcast / broadcastEmbed / testConnections hold one entry
\* for that alias with the outcome of one of them, the one that settles last
\* overwriting the other, and totalClients counts both.
C17_SharedAlias == [][C17_Summary' /\ C17_LastSettlerWins]_vars

\* C18: in one broadcast, broadcastEmbed or testConnections call the operation
\* of every registered client is invoked, in registration order, before the
\* group waits on any of them: whichever operations are still pending, no
\* client's invocation is outstanding.
C18_FanOutBeforeWait ==
    phase # "idle"
    => \A i \in 1..Len(tasks) :
         /\ i \in DOMAIN invocations
         /\ invocations[i].entry = i
         /\ invocations[i].client = tasks[i].client
         /\ invocations[i].method = tasks[i].method

\* the group waits on two clients: both have been invoked and neither has
\* settled
C18_Witness ==
    /\ phase = "pending"
    /\ Len(tasks) = 2
    /\ Len(invocations) = 2
    /\ \A i \in 1..Len(tasks) : tasks[i].op = "pending"

\* the methods one call may invoke on a client
C19_Methods(op) ==
    CASE op = "broadcast" -> {"send"}
      [] op = "broadcastEmbed" -> {"sendEmbed", "send"}
      [] OTHER -> {"testConnection", "send"}

\* C19: one call invokes, for each registered entry, exactly one method
\* exactly once: send in broadcast, one of sendEmbed and send in
\* broadcastEmbed, one of testConnection and send in testConnections; no
\* failed invocation is issued again and no failed sendEmbed is followed by a
\* fallback send.
C19_NoRetries ==
    phase # "idle"
    => /\ \A i \in 1..Len(tasks) :
            Cardinality({k \in DOMAIN invocations : invocations[k].entry = i}) = 1
       /\ \A k \in DOMAIN invocations :
            /\ invocations[k].entry \in 1..Len(tasks)
            /\ invocations[k].method \in C19_Methods(callOp)
            /\ invocations[k].client = tasks[invocations[k].entry].client

\* broadcastEmbed has returned after a sendEmbed failed: the client was
\* invoked once, with sendEmbed
C19_Witness ==
    /\ phase = "returned"
    /\ callOp = "broadcastEmbed"
    /\ \E i \in 1..Len(tasks) :
         /\ tasks[i].method = "sendEmbed"
         /\ tasks[i].op = "rejected"
         /\ {invocations[k].method : k \in {n \in DOMAIN invocations : invocations[n].entry = i}}
              = {"sendEmbed"}

\* some operation of the call has not settled
SomePending == \E i \in 1..Len(tasks) : tasks[i].op = "pending"

\* C20: once the operation of every dispatched client has settled the call
\* returns; the group has no timeout or cancellation, so while the operation
\* of at least one dispatched client is pending the call stays pending,
\* however many others have settled.
C20_Termination ==
    /\ (phase = "pending" /\ ~SomePending) ~> (phase = "returned")
    /\ [](SomePending => (phase = "pending" /\ returned.state = "pending"))

\* the call is pending on two clients, one settled and one not
C20_Witness ==
    /\ phase = "pending"
    /\ Len(tasks) = 2
    /\ \E i, j \in 1..Len(tasks) :
         /\ tasks[i].op \in {"fulfilled", "rejected", "threw"}
         /\ tasks[j].op = "pending"

\* the registry entry task i was made from is no longer registered
C21_Removed(i) ==
    ~\E k \in 1..Len(clients) :
        clients[k].alias = tasks[i].alias /\ clients[k].client = tasks[i].client

\* the clients dispatched to are those registered when the call was made
C21_Snapshot ==
    (phase = "idle" /\ phase' # "idle")
    => /\ clients' = clients
       /\ Len(tasks') = Len(clients)
       /\ \A i \in 1..Len(clients) :
            /\ tasks'[i].client = clients[i].client
            /\ tasks'[i].alias = clients[i].alias
            /\ tasks'[i].platform = clients[i].platform

\* once the call is made neither the clients dispatched to nor the
\* invocations change, and only addClient / removeClient change the registry
C21_Fixed ==
    phase # "idle"
    => /\ invocations' = invocations
       /\ Len(tasks') = Len(tasks)
       /\ \A i \in 1..Len(tasks) :
            tasks'[i].client = tasks[i].client /\ tasks'[i].alias = tasks[i].alias
       /\ clients' # clients => nmut' = nmut + 1

\* invocations and entries belong to dispatched clients
C21_Entries ==
    phase # "idle"
    => /\ Len(invocations) = Len(tasks)
       /\ DOMAIN results \subseteq {tasks[i].alias : i \in 1..Len(tasks)}

\* when the call returns, a dispatched client removed while the call was
\* pending has its entry in the summary
C21_RemovedRecorded ==
    (phase = "pending" /\ phase' = "returned" /\ returned'.state = "fulfilled")
    => \A i \in 1..Len(tasks) :
         C21_Removed(i)
         => tasks[i].alias \in
              DOMAIN (IF callOp = "testConnections" THEN returned'.value
                      ELSE returned'.value.results)

\* C21: the clients a broadcast / broadcastEmbed / testConnections call
\* dispatches to are fixed when the call is made: a client added while the
\* call is pending gets no invocation and no entry, a client removed while it
\* is pending still has its outcome recorded under its alias, and the call
\* itself never adds, removes or reorders registry entries.
C21_DispatchFixedAtCall ==
    [][C21_Snapshot /\ C21_Fixed /\ C21_Entries' /\ C21_RemovedRecorded]_vars

\* a type name without its trailing "Client", when it ends with it
C22_StripSuffix(name) ==
    LET suffix == <<"C", "l", "i", "e", "n", "t">>
        n == Len(name) - Len(suffix)
    IN  IF n >= 0 /\ SubSeq(name, n + 1, Len(name)) = suffix
        THEN SubSeq(name, 1, n)
        ELSE name

\* C22: the platform label addClient stores, and listClients reports, is the
\* client's type name with a trailing "Client" stripped, nothing else
\* removed, then lowercased, also for type names in which "Client" occurs
\* before the end.
C22_PlatformLabel ==
    /\ Len(ListClients(clients)) = Len(clients)
    /\ \A k \in 1..Len(clients) :
         /\ clients[k].platform =
              Text(ToLowerCase(C22_StripSuffix(ConstructorName(clients[k].client))))
         /\ ListClients(clients)[k].platform = clients[k].platform

====
